---- MODULE Spec2Model ----
(***************************************************************************)
(* Model of the house-trend pipeline: the record normalisation, batch      *)
(* transformation and yearly aggregation (data_transformer.py,             *)
(* update_pipeline.py), the fetch grid (api_client.py), the chart step,    *)
(* the completion report and the orchestration of a run                    *)
(* (update_pipeline.py, run_full_update.py).                               *)
(*                                                                         *)
(* Strings are sequences of characters.  A character is written as a short *)
(* ASCII name, because the module text is ASCII:                           *)
(*   "0".."9"        the ASCII digits                                      *)
(*   "F1".."F5"      the fullwidth digits (U+FF11..U+FF15); Python's \d    *)
(*                   and int() accept them as decimal digits               *)
(*   "FR","FK","FL","FD"  the fullwidth letters R, K, L, D                 *)
(*   "R","K","L","D" the ASCII letters                                     *)
(*   "nen"           the year marker (U+5E74)                              *)
(*   "ijo1","ijo2"   the two characters of the "or more" suffix            *)
(*   "so","no","ta"  the three characters of the 'other' category          *)
(*   " "             the space, "FSP" the ideographic space (U+3000)       *)
(*   "yen", ",", "N", "/", "A", "x", "-", "+", "."  other characters       *)
(* A Python Optional[int] is a record [some, v]; None is [some |-> FALSE]. *)
(***************************************************************************)
EXTENDS Integers, Sequences, FiniteSets, TLC

VARIABLES
    pc,                 \* position of the running call
    transformer,        \* the APIDataTransformer object's fields
    floor_plan,         \* standardize_room_type: argument
    room_out,           \* standardize_room_type: returned category
    trade_price,        \* clean_price: argument
    price_out,          \* clean_price: returned Optional[int]
    building_year,      \* extract_building_age: argument
    transaction_year,   \* extract_building_age: argument
    age_out,            \* extract_building_age: returned Optional[int]
    api_record,         \* transform_api_record: the raw record (a dict)
    first_out,          \* result of the first call on api_record
    other_record,       \* another raw record, transformed in between
    other_out,          \* result of the call on other_record
    second_out,         \* result of the second call on api_record
    api_data,           \* transform_api_data: the list of raw records
    idx,                \* transform_api_data: position of the for loop
    transformed_records,\* transform_api_data: the records kept so far
    df,                 \* the table transform_api_data returns and the charts read
    area,               \* generate_single_chart: argument
    room_type,          \* generate_single_chart: argument
    yearly_avg_price,   \* generate_single_chart: mean price per year
    yearly_count,       \* generate_single_chart: number of records per year
    start_year,         \* fetch_prefecture_data: argument
    end_year,           \* fetch_prefecture_data: argument
    fetch_year,         \* fetch_prefecture_data: loop variable year
    fetch_quarter,      \* fetch_prefecture_data: loop variable quarter
    all_data,           \* fetch_prefecture_data: the records fetched so far
    queries,            \* the queries the API has received, in order
    response,           \* the API's answer to the last query
    fetched,            \* what fetch_prefecture_data returned to its caller
    progress,           \* HouseTrendUpdater.progress
    files,              \* the files written under the output directories
    test_mode,          \* run_full_update: argument
    step_log,           \* the orchestration steps begun, in order
    all_prefecture_data,\* run_full_update: number of records fetched per prefecture
    prefecture_dataframes,\* transform_and_save_data: number of rows per prefecture
    pref_idx,           \* position in the list of prefectures
    cell_idx,           \* position in the fetch grid of the prefecture
    exc,                \* the exception in flight, if any
    raised_at,          \* the step the exception escaped from
    exit_status,        \* exit status of run_full_update.py
    area_idx,           \* generate_charts_for_prefecture: position in areas
    room_idx,           \* generate_charts_for_prefecture: position in room_types
    charts_generated,   \* generate_charts_for_prefecture: local counter
    report,             \* generate_completion_report: the dict written to the file
    printed             \* generate_completion_report: the error lines printed

roomVars == <<floor_plan, room_out>>
priceVars == <<trade_price, price_out>>
ageVars == <<building_year, transaction_year, age_out>>
recordVars == <<api_record, first_out, other_record, other_out, second_out>>
batchVars == <<api_data, idx, transformed_records>>
chartVars == <<area, room_type, yearly_avg_price, yearly_count>>

fetchVars == <<start_year, end_year, fetch_year, fetch_quarter, all_data, queries,
               response, fetched>>
progressVars == <<progress, files>>
runVars == <<test_mode, step_log, all_prefecture_data, prefecture_dataframes, pref_idx,
             cell_idx, exc,
             raised_at, exit_status>>
pairVars == <<area_idx, room_idx, charts_generated>>
reportVars == <<report, printed>>
pipelineVars == <<fetchVars, progressVars, runVars, pairVars, reportVars>>

vars == <<pc, transformer, roomVars, priceVars, ageVars, recordVars, batchVars, df,
          chartVars, pipelineVars>>

\* the variables a call of one function leaves alone
notRoom == <<transformer, priceVars, ageVars, recordVars, batchVars, df, chartVars,
            pipelineVars>>
notPrice == <<transformer, roomVars, ageVars, recordVars, batchVars, df, chartVars,
             pipelineVars>>
notAge == <<transformer, roomVars, priceVars, recordVars, batchVars, df, chartVars,
           pipelineVars>>
notRecord == <<transformer, roomVars, priceVars, ageVars, batchVars, df, chartVars,
              pipelineVars>>
notBatch == <<transformer, roomVars, priceVars, ageVars, recordVars, chartVars,
             pipelineVars>>
notChart == <<transformer, roomVars, priceVars, ageVars, recordVars, batchVars,
             pipelineVars>>
normalizerVars == <<transformer, roomVars, priceVars, ageVars, recordVars, batchVars,
                   chartVars>>
notFetch == <<normalizerVars, df, progressVars, runVars, pairVars, reportVars>>
notRun == <<normalizerVars, df, fetchVars, pairVars, reportVars>>
notPair == <<normalizerVars, fetchVars, runVars, reportVars>>
notReport == <<normalizerVars, df, fetchVars, runVars, pairVars>>

(***************************************************************************)
(* Bounds of the model.                                                    *)
(***************************************************************************)
MaxRoomTokens == 2
MaxPriceLen == 4
MaxYearTokens == 3
MaxYearDigits == 8
MaxBatch == 2
MaxRows == 3

(***************************************************************************)
(* Python values.                                                          *)
(***************************************************************************)
None == [some |-> FALSE, v |-> 0]
Some(n) == [some |-> TRUE, v |-> n]

AsciiDigit == {"0", "1", "2", "3", "4", "5", "6", "7", "8", "9"}
FullDigit == {"F1", "F2", "F3", "F4", "F5"}

\* the characters matched by \d in a Python 3 str pattern
IsDigit(c) == c \in AsciiDigit \cup FullDigit

\* the characters str.strip() and int() treat as whitespace
IsSpace(c) == c \in {" ", "FSP"}

DigitVal(c) ==
    CASE c \in {"0"} -> 0
      [] c \in {"1", "F1"} -> 1
      [] c \in {"2", "F2"} -> 2
      [] c \in {"3", "F3"} -> 3
      [] c \in {"4", "F4"} -> 4
      [] c \in {"5", "F5"} -> 5
      [] c \in {"6"} -> 6
      [] c \in {"7"} -> 7
      [] c \in {"8"} -> 8
      [] c \in {"9"} -> 9
      [] OTHER -> 0

\* value of a non-empty sequence of decimal digits, as int() computes it
RECURSIVE DecValue(_)
DecValue(ds) ==
    IF ds = <<>> THEN 0
    ELSE DecValue(SubSeq(ds, 1, Len(ds) - 1)) * 10 + DigitVal(ds[Len(ds)])

AllDigits(s) == \A i \in 1..Len(s) : IsDigit(s[i])

\* str.strip(): leading and trailing whitespace removed
RECURSIVE lstrip(_)
lstrip(s) == IF s # <<>> /\ IsSpace(s[1]) THEN lstrip(Tail(s)) ELSE s

RECURSIVE rstrip(_)
rstrip(s) ==
    IF s # <<>> /\ IsSpace(s[Len(s)]) THEN rstrip(SubSeq(s, 1, Len(s) - 1)) ELSE s

strip(s) == rstrip(lstrip(s))

\* the Python test  t in s  on two strings
Contains(s, t) ==
    \E i \in 0..(Len(s) - Len(t)) : SubSeq(s, i + 1, i + Len(t)) = t

\* int(s) on a string: surrounding whitespace and one sign are accepted, the
\* rest must be one or more decimal digits; anything else raises ValueError,
\* returned here as [ok |-> FALSE].
PyInt(s) ==
    LET t == strip(s)
        signed == t # <<>> /\ t[1] \in {"-", "+"}
        body == IF signed THEN Tail(t) ELSE t
    IN  IF body # <<>> /\ AllDigits(body)
        THEN [ok |-> TRUE,
              v |-> IF signed /\ t[1] = "-" THEN 0 - DecValue(body) ELSE DecValue(body)]
        ELSE [ok |-> FALSE, v |-> 0]

\* every concatenation of at most n strings of the set T
RECURSIVE Concats(_, _)
Concats(T, n) ==
    IF n = 0 THEN {<<>>}
    ELSE LET shorter == Concats(T, n - 1)
         IN  shorter \cup {s \o t : s \in shorter, t \in T}

\* every string of at most n characters of the set A
RECURSIVE StringsUpTo(_, _)
StringsUpTo(A, n) ==
    IF n = 0 THEN {<<>>}
    ELSE LET shorter == StringsUpTo(A, n - 1)
         IN  shorter \cup {Append(s, c) : s \in shorter, c \in A}

(***************************************************************************)
(* APIDataTransformer.__init__: the categories and the lookup table.       *)
(***************************************************************************)
R1 == <<"F1", "FR">>
K1 == <<"F1", "FK">>
LDK1 == <<"F1", "FL", "FD", "FK">>
LDK2 == <<"F2", "FL", "FD", "FK">>
LDK3 == <<"F3", "FL", "FD", "FK">>
LDK4 == <<"F4", "FL", "FD", "FK">>
Sonota == <<"so", "no", "ta">>

room_type_mapping ==
    ( R1 :> R1 ) @@
    ( K1 :> K1 ) @@
    ( <<"F1", "FD", "FK">> :> K1 ) @@
    ( LDK1 :> LDK1 ) @@
    ( <<"F2", "FK">> :> K1 ) @@
    ( <<"F2", "FD", "FK">> :> LDK2 ) @@
    ( LDK2 :> LDK2 ) @@
    ( <<"F3", "FK">> :> LDK3 ) @@
    ( <<"F3", "FD", "FK">> :> LDK3 ) @@
    ( LDK3 :> LDK3 ) @@
    ( <<"F4", "FK">> :> LDK4 ) @@
    ( <<"F4", "FD", "FK">> :> LDK4 ) @@
    ( LDK4 :> LDK4 ) @@
    ( <<"F5", "FK", "ijo1", "ijo2">> :> LDK4 ) @@
    ( <<"F5", "FD", "FK", "ijo1", "ijo2">> :> LDK4 ) @@
    ( <<"F5", "FL", "FD", "FK", "ijo1", "ijo2">> :> LDK4 )

\* the four property type labels, character by character
Mansion == <<"chu", "ko", "ma", "n", "shi", "yo", "n", "nado">>
TakuchiTatemono == <<"taku", "chi", "(", "tsuchi", "chi", "to", "tate", "mono", ")">>
Tochi == <<"tsuchi", "chi">>
Tatemono == <<"tate", "mono">>

valid_property_types == <<Mansion, TakuchiTatemono, Tochi, Tatemono>>

\* the object __init__ builds
NewTransformer ==
    [room_type_mapping |-> room_type_mapping,
     valid_property_types |-> valid_property_types]

(***************************************************************************)
(* standardize_room_type: the substring tests.                             *)
(***************************************************************************)
\* the substring tests tried from the largest category down
PatternMatch_LargestFirst(clean_plan) ==
    IF Contains(clean_plan, LDK4) \/ Contains(clean_plan, <<"4", "L", "D", "K">>) THEN LDK4
    ELSE IF Contains(clean_plan, LDK3) \/ Contains(clean_plan, <<"3", "L", "D", "K">>)
         THEN LDK3
    ELSE IF Contains(clean_plan, LDK2) \/ Contains(clean_plan, <<"2", "L", "D", "K">>)
         THEN LDK2
    ELSE IF Contains(clean_plan, LDK1) \/ Contains(clean_plan, <<"1", "L", "D", "K">>)
         THEN LDK1
    ELSE IF Contains(clean_plan, K1) \/ Contains(clean_plan, <<"1", "K">>) THEN K1
    ELSE IF Contains(clean_plan, R1) \/ Contains(clean_plan, <<"1", "R">>) THEN R1
    ELSE Sonota

\* the substring tests of lines 112-125, tried in the written order
PatternMatch(clean_plan) ==
    IF Contains(clean_plan, R1) \/ Contains(clean_plan, <<"1", "R">>) THEN R1
    ELSE IF Contains(clean_plan, K1) \/ Contains(clean_plan, <<"1", "K">>) THEN K1
    ELSE IF Contains(clean_plan, LDK1) \/ Contains(clean_plan, <<"1", "L", "D", "K">>)
         THEN LDK1
    ELSE IF Contains(clean_plan, LDK2) \/ Contains(clean_plan, <<"2", "L", "D", "K">>)
         THEN LDK2
    ELSE IF Contains(clean_plan, LDK3) \/ Contains(clean_plan, <<"3", "L", "D", "K">>)
         THEN LDK3
    ELSE IF Contains(clean_plan, LDK4) \/ Contains(clean_plan, <<"4", "L", "D", "K">>)
         THEN LDK4
    ELSE Sonota

(***************************************************************************)
(* JSON values of a raw record: a string, null, a number or a list.  A key *)
(* the record does not hold has kind "missing".                            *)
(***************************************************************************)
Str(s) == [kind |-> "str", s |-> s, n |-> 0, l |-> <<>>]
Null == [kind |-> "null", s |-> <<>>, n |-> 0, l |-> <<>>]
Num(n) == [kind |-> "num", s |-> <<>>, n |-> n, l |-> <<>>]
List(l) == [kind |-> "list", s |-> <<>>, n |-> 0, l |-> l]
Missing == [kind |-> "missing", s |-> <<>>, n |-> 0, l |-> <<>>]

\* Python truthiness of a value
Truthy(x) ==
    CASE x.kind = "str" -> x.s # <<>>
      [] x.kind = "num" -> x.n # 0
      [] x.kind = "list" -> x.l # <<>>
      [] OTHER -> FALSE

DigitChar(d) ==
    CASE d = 0 -> "0" [] d = 1 -> "1" [] d = 2 -> "2" [] d = 3 -> "3" [] d = 4 -> "4"
      [] d = 5 -> "5" [] d = 6 -> "6" [] d = 7 -> "7" [] d = 8 -> "8" [] OTHER -> "9"

\* str(n) of a non-negative int
RECURSIVE NatStr(_)
NatStr(n) == IF n < 10 THEN <<DigitChar(n)>> ELSE Append(NatStr(n \div 10), DigitChar(n % 10))

IntStr(n) == IF n < 0 THEN <<"-">> \o NatStr(0 - n) ELSE NatStr(n)

\* the elements of a list of ints as str() joins them
RECURSIVE JoinList(_)
JoinList(l) ==
    IF l = <<>> THEN <<>>
    ELSE IF Len(l) = 1 THEN IntStr(l[1])
    ELSE IntStr(l[1]) \o <<",", " ">> \o JoinList(Tail(l))

\* str(x)
PyStr(x) ==
    CASE x.kind = "str" -> x.s
      [] x.kind = "num" -> IntStr(x.n)
      [] x.kind = "list" -> <<"[">> \o JoinList(x.l) \o <<"]">>
      [] OTHER -> <<"N", "o", "n", "e">>

(***************************************************************************)
(* standardize_room_type.  The result is [raised, v]: the call either      *)
(* returns the category v or raises (AttributeError: the argument has no   *)
(* strip method).                                                          *)
(***************************************************************************)
Returned(v) == [raised |-> FALSE, v |-> v]
Raised == [raised |-> TRUE, v |-> <<>>]

\* a fallback that hands an unrecognised label through unchanged
standardize_room_type_PassThrough(x) ==
    IF ~Truthy(x) THEN Returned(Sonota)
    ELSE IF x.kind # "str" THEN Raised
    ELSE LET clean_plan == strip(x.s)
         IN  IF clean_plan \in DOMAIN transformer.room_type_mapping
             THEN Returned(transformer.room_type_mapping[clean_plan])
             ELSE IF PatternMatch(clean_plan) = Sonota THEN Returned(clean_plan)
             ELSE Returned(PatternMatch(clean_plan))

standardize_room_type(x) ==
    IF ~Truthy(x) THEN Returned(Sonota)
    ELSE IF x.kind # "str" THEN Raised
    ELSE LET clean_plan == strip(x.s)
         IN  IF clean_plan \in DOMAIN transformer.room_type_mapping
             THEN Returned(transformer.room_type_mapping[clean_plan])
             ELSE Returned(PatternMatch(clean_plan))

(***************************************************************************)
(* clean_price.  Every exception is caught and gives None.                 *)
(***************************************************************************)
\* re.sub(r'[^\d]', '', s)
StripNonDigits(s) == SelectSeq(s, IsDigit)

\* a pattern that removes the thousands separators only
clean_price_CommasOnly(x) ==
    IF ~Truthy(x) THEN None
    ELSE LET clean == SelectSeq(PyStr(x), LAMBDA c : c # ",")
         IN  IF clean = <<>> THEN None
             ELSE IF PyInt(clean).ok THEN Some(PyInt(clean).v) ELSE None

clean_price(x) ==
    IF ~Truthy(x) THEN None
    ELSE LET clean == StripNonDigits(PyStr(x))
         IN  IF clean = <<>> THEN None
             ELSE IF PyInt(clean).ok THEN Some(PyInt(clean).v) ELSE None

(***************************************************************************)
(* extract_year_from_period: re.search(r'(\d{4})nen', period), the         *)
(* leftmost match; a non-string argument raises inside the try and gives   *)
(* None.                                                                   *)
(***************************************************************************)
YearMatchAt(s, i) ==
    /\ i + 4 <= Len(s)
    /\ AllDigits(SubSeq(s, i, i + 3))
    /\ s[i + 4] = "nen"

extract_year_from_period(x) ==
    IF x.kind # "str" THEN None
    ELSE LET hits == {i \in 1..Len(x.s) : YearMatchAt(x.s, i)}
         IN  IF hits = {} THEN None
             ELSE LET first == CHOOSE i \in hits : \A j \in hits : i <= j
                  IN  Some(DecValue(SubSeq(x.s, first, first + 3)))

(***************************************************************************)
(* extract_building_age.  Every exception is caught and gives None.        *)
(***************************************************************************)
\* building_year.replace(nen, '')
RemoveNen(s) == SelectSeq(s, LAMBDA c : c # "nen")

\* the built year searched in the label, as the transaction year is in the period
extract_building_age_Search(x, ty) ==
    IF ~Truthy(x) \/ x.kind # "str" THEN None
    ELSE IF \A i \in 1..Len(x.s) : ~YearMatchAt(x.s, i) THEN None
    ELSE LET first == CHOOSE i \in 1..Len(x.s) :
                          YearMatchAt(x.s, i) /\ \A j \in 1..(i - 1) : ~YearMatchAt(x.s, j)
             age == ty - DecValue(SubSeq(x.s, first, first + 3))
         IN  Some(IF age > 0 THEN age ELSE 0)

\* the age returned without the clamp of line 86
extract_building_age_NoClamp(x, ty) ==
    IF ~Truthy(x) \/ x.kind # "str" THEN None
    ELSE IF ~Contains(x.s, <<"nen">>) THEN None
    ELSE LET built == PyInt(RemoveNen(x.s))
         IN  IF ~built.ok THEN None
             ELSE Some(ty - built.v)

extract_building_age(x, ty) ==
    IF ~Truthy(x) \/ x.kind # "str" THEN None
    ELSE IF ~Contains(x.s, <<"nen">>) THEN None
    ELSE LET built == PyInt(RemoveNen(x.s))
             age == ty - built.v
         IN  IF ~built.ok THEN None
             ELSE Some(IF age > 0 THEN age ELSE 0)

(***************************************************************************)
(* clean_area.  A float is [mant, scale], the number mant / 10^scale with  *)
(* the trailing zeros of the fraction dropped.  Every exception is caught  *)
(* and gives None.                                                         *)
(***************************************************************************)
NoArea == [some |-> FALSE, mant |-> 0, scale |-> 0]

RECURSIVE DropTrailingZeros(_)
DropTrailingZeros(s) ==
    IF s # <<>> /\ DigitVal(s[Len(s)]) = 0
    THEN DropTrailingZeros(SubSeq(s, 1, Len(s) - 1))
    ELSE s

\* float(s) on a string of digits and decimal points
clean_area(x) ==
    IF ~Truthy(x) THEN NoArea
    ELSE LET clean == SelectSeq(PyStr(x), LAMBDA c : IsDigit(c) \/ c = ".")
             dots == {i \in 1..Len(clean) : clean[i] = "."}
         IN  IF clean = <<>> \/ Cardinality(dots) > 1 \/ Cardinality(dots) = Len(clean)
             THEN NoArea
             ELSE LET dot == IF dots = {} THEN Len(clean) + 1 ELSE CHOOSE i \in dots : TRUE
                      frac == DropTrailingZeros(SubSeq(clean, dot + 1, Len(clean)))
                  IN  [some |-> TRUE,
                       mant |-> DecValue(SubSeq(clean, 1, dot - 1) \o frac),
                       scale |-> Len(frac)]

(***************************************************************************)
(* transform_api_record.  A raw record is a record of JSON values, one per *)
(* key the code reads.  The fields of the result carry the romanised names *)
(* of the CSV columns:                                                     *)
(*   shurui (type), todofukenmei (prefecture), shikuchosonmei              *)
(*   (municipality), chikumei (district), moyorieki_meisho and             *)
(*   moyorieki_kyori (nearest station: name, minutes), torihikikakaku      *)
(*   (price), madori (floor plan), menseki (area), kenchikunen (building   *)
(*   year), torihikijiki (period), torihikijiki_nen (transaction year),    *)
(*   chikunensu (building age).                                            *)
(***************************************************************************)
\* api_record.get(key, '')
Get(rec, key) == IF rec[key].kind = "missing" THEN Str(<<>>) ELSE rec[key]

\* api_record.get(key)
GetOrNone(rec, key) == IF rec[key].kind = "missing" THEN Null ELSE rec[key]

\* the constant of line 194
FallbackYear == 2024

\* x or FallbackYear, on an Optional[int]
OrFallback(y) == IF y.some /\ y.v # 0 THEN y.v ELSE FallbackYear

NoRecord ==
    [shurui |-> Null, todofukenmei |-> Null, shikuchosonmei |-> Null,
     chikumei |-> Null, moyorieki_meisho |-> <<>>, moyorieki_kyori |-> <<>>,
     torihikikakaku |-> None, madori |-> <<>>, menseki |-> NoArea,
     kenchikunen |-> Null, torihikijiki |-> Null, torihikijiki_nen |-> None,
     chikunensu |-> None]

\* the fallback year written into the transaction year column
transform_api_record_Leak(rec) ==
    LET year == extract_year_from_period(Get(rec, "Period"))
        room == standardize_room_type(Get(rec, "FloorPlan"))
    IN  IF room.raised THEN [raised |-> TRUE, v |-> NoRecord]
        ELSE [raised |-> FALSE,
              v |-> [shurui |-> Get(rec, "Type"),
                     todofukenmei |-> Get(rec, "Prefecture"),
                     shikuchosonmei |-> Get(rec, "Municipality"),
                     chikumei |-> Get(rec, "DistrictName"),
                     moyorieki_meisho |-> <<>>,
                     moyorieki_kyori |-> <<>>,
                     torihikikakaku |-> clean_price(Get(rec, "TradePrice")),
                     madori |-> room.v,
                     menseki |-> clean_area(Get(rec, "Area")),
                     kenchikunen |-> Get(rec, "BuildingYear"),
                     torihikijiki |-> Get(rec, "Period"),
                     torihikijiki_nen |-> Some(OrFallback(year)),
                     chikunensu |-> extract_building_age(Get(rec, "BuildingYear"),
                                                         OrFallback(year))]]

\* the three place names stripped of surrounding whitespace
Trimmed(x) == IF x.kind = "str" THEN Str(strip(x.s)) ELSE x

transform_api_record_Trim(rec) ==
    LET year == extract_year_from_period(Get(rec, "Period"))
        room == standardize_room_type(Get(rec, "FloorPlan"))
    IN  IF room.raised THEN [raised |-> TRUE, v |-> NoRecord]
        ELSE [raised |-> FALSE,
              v |-> [shurui |-> Get(rec, "Type"),
                     todofukenmei |-> Trimmed(Get(rec, "Prefecture")),
                     shikuchosonmei |-> Trimmed(Get(rec, "Municipality")),
                     chikumei |-> Trimmed(Get(rec, "DistrictName")),
                     moyorieki_meisho |-> <<>>,
                     moyorieki_kyori |-> <<>>,
                     torihikikakaku |-> clean_price(Get(rec, "TradePrice")),
                     madori |-> room.v,
                     menseki |-> clean_area(Get(rec, "Area")),
                     kenchikunen |-> Get(rec, "BuildingYear"),
                     torihikijiki |-> Get(rec, "Period"),
                     torihikijiki_nen |-> year,
                     chikunensu |-> extract_building_age(Get(rec, "BuildingYear"),
                                                         OrFallback(year))]]

transform_api_record(rec) ==
    LET transaction_year_ == extract_year_from_period(Get(rec, "Period"))
        room == standardize_room_type(Get(rec, "FloorPlan"))
    IN  IF room.raised THEN [raised |-> TRUE, v |-> NoRecord]
        ELSE [raised |-> FALSE,
              v |-> [shurui |-> Get(rec, "Type"),
                     todofukenmei |-> Get(rec, "Prefecture"),
                     shikuchosonmei |-> Get(rec, "Municipality"),
                     chikumei |-> Get(rec, "DistrictName"),
                     moyorieki_meisho |-> <<>>,
                     moyorieki_kyori |-> <<>>,
                     torihikikakaku |-> clean_price(Get(rec, "TradePrice")),
                     madori |-> room.v,
                     menseki |-> clean_area(Get(rec, "Area")),
                     kenchikunen |-> Get(rec, "BuildingYear"),
                     torihikijiki |-> Get(rec, "Period"),
                     torihikijiki_nen |-> transaction_year_,
                     chikunensu |-> extract_building_age(Get(rec, "BuildingYear"),
                                                         OrFallback(transaction_year_))]]

\* a call that takes the period out of the raw record (pop in place of get)
RecordAfterCall_Pop(rec) == [rec EXCEPT !.Period = Missing]

\* the raw record after the call: the code reads it with get and assigns nothing
RecordAfterCall(rec) == rec

(***************************************************************************)
(* transform_api_data: the two tests of the loop body.                     *)
(***************************************************************************)
\* record.get('Type') in self.valid_property_types
TypeIsValid(rec) ==
    LET ty == GetOrNone(rec, "Type")
    IN  /\ ty.kind = "str"
        /\ \E i \in 1..Len(transformer.valid_property_types) :
              transformer.valid_property_types[i] = ty.s

\* a test that looks at the price only
HasPriceAndYear_PriceOnly(t) ==
    t.torihikikakaku.some /\ t.torihikikakaku.v # 0

\* transformed[price] and transformed[year]: the truthiness of two Optional[int]
HasPriceAndYear(t) ==
    /\ t.torihikikakaku.some /\ t.torihikikakaku.v # 0
    /\ t.torihikijiki_nen.some /\ t.torihikijiki_nen.v # 0

(***************************************************************************)
(* The arguments the calls are checked on.                                 *)
(***************************************************************************)
AsciiMarkers ==
    {<<"1", "R">>, <<"1", "K">>, <<"1", "L", "D", "K">>, <<"2", "L", "D", "K">>,
     <<"3", "L", "D", "K">>, <<"4", "L", "D", "K">>}

RoomTokens ==
    (DOMAIN room_type_mapping) \cup AsciiMarkers
        \cup {<<" ">>, <<"FSP">>, <<"x">>, <<"FK">>, <<"F1">>}

FloorPlanArgs ==
    {Str(s) : s \in Concats(RoomTokens, MaxRoomTokens)}
        \cup {Null, Num(0), Num(2), List(<<>>), List(<<1>>)}

PriceChars == {"0", "1", "2", "F3", ",", "yen", "N"}

TradePriceArgs ==
    {Str(s) : s \in StringsUpTo(PriceChars, MaxPriceLen)}
        \cup {Null, Num(0), Num(120), List(<<>>), List(<<1, 2>>)}

YearTokens ==
    {<<"2", "0", "0", "3">>, <<"2", "0", "3", "0">>, <<"1", "5">>, <<"F2">>,
     <<"nen">>, <<" ">>, <<"-">>, <<"x">>}

\* labels of at most MaxYearDigits digits: the built year stays a 32-bit number
BuildingYearArgs ==
    {Str(s) : s \in {c \in Concats(YearTokens, MaxYearTokens) :
                        Len(SelectSeq(c, IsDigit)) <= MaxYearDigits}}
        \cup {Null, Num(2003), List(<<2003>>)}

TransactionYearArgs == {0 - 5, 0, 2003, 2024}

RawRecord(ty, muni, price, plan, sqm, byear, period) ==
    [Type |-> ty, Prefecture |-> Str(<<"Tokyo">>), Municipality |-> muni,
     DistrictName |-> Str(<<"Chuo">>), TradePrice |-> price, FloorPlan |-> plan,
     Area |-> sqm, BuildingYear |-> byear, Period |-> period]

Period2024 == <<"2", "0", "2", "4", "nen", "x", "1", "x">>
Period2021 == <<"2", "0", "2", "1", "nen", "x", "3", "x">>
Price1200 == <<"1", ",", "2", "0", "0">>
Built2003 == <<"2", "0", "0", "3", "nen">>
Area65 == <<"6", "5", ".", "5", "0">>

TypeVals == {Str(Mansion), Str(Tochi), Str(<<"x">>), Null, Missing, List(<<1>>)}
MuniVals == {Str(<<"A">>), Str(<<" ", "A">>), Str(<<"B">>)}
PriceVals ==
    {Str(Price1200), Str(<<"0">>), Str(<<"N", "/", "A">>), Str(<<>>), Missing, Null,
     Num(0), Num(120), List(<<1, 2>>)}
PlanVals ==
    {Str(<<"F1", "FD", "FK">>), Str(<<"3", "L", "D", "K">>), Str(<<>>), Missing, Null,
     Num(0), Num(2), List(<<>>), List(<<1>>)}
AreaVals == {Str(Area65), Str(<<"1", ".", "2", ".", "3">>), Missing, Num(70)}
BuildingYearVals ==
    {Str(Built2003), Str(<<"2", "0", "3", "0", "nen">>), Str(<<"x", "1", "5", "nen">>),
     Missing, Num(2003)}
PeriodVals ==
    {Str(Period2024), Str(Period2021), Str(<<"0", "0", "0", "0", "nen">>),
     Str(<<"x">>), Missing, Null, Num(2024)}

GoodRecord ==
    RawRecord(Str(Mansion), Str(<<"A">>), Str(Price1200), Str(<<"F1", "FD", "FK">>),
              Str(Area65), Str(Built2003), Str(Period2024))

\* the good record with one key changed
OneKeyOff ==
    {[GoodRecord EXCEPT !.Type = x] : x \in TypeVals}
        \cup {[GoodRecord EXCEPT !.Municipality = x] : x \in MuniVals}
        \cup {[GoodRecord EXCEPT !.TradePrice = x] : x \in PriceVals}
        \cup {[GoodRecord EXCEPT !.FloorPlan = x] : x \in PlanVals}
        \cup {[GoodRecord EXCEPT !.Area = x] : x \in AreaVals}
        \cup {[GoodRecord EXCEPT !.BuildingYear = x] : x \in BuildingYearVals}
        \cup {[GoodRecord EXCEPT !.Period = x] : x \in PeriodVals}

\* the records one call of transform_api_record is checked on
\* the good record with a place name padded or missing
PlaceOff ==
    {[GoodRecord EXCEPT !.Prefecture = x] : x \in {Str(<<"Tokyo", " ">>), Missing}}
        \cup {[GoodRecord EXCEPT !.DistrictName = x] : x \in {Str(<<"FSP", "Chuo">>), Null}}
        \cup {[GoodRecord EXCEPT !.Municipality = x] : x \in {Str(<<"A", " ">>), Missing}}

RecordArgs ==
    OneKeyOff \cup PlaceOff \cup
    {RawRecord(Str(Mansion), Str(<<"A">>), price, plan, Str(Area65), byear, period) :
        price \in {Str(Price1200), Str(<<"0">>), Missing},
        plan \in {Str(<<"F1", "FD", "FK">>), Num(2), Null},
        byear \in BuildingYearVals, period \in PeriodVals}

\* the lists of raw records transform_api_data is checked on
RECURSIVE ListsUpTo(_, _)
ListsUpTo(S, n) ==
    IF n = 0 THEN {<<>>}
    ELSE LET shorter == ListsUpTo(S, n - 1)
         IN  shorter \cup {Append(l, x) : l \in shorter, x \in S}

ApiDataArgs == ListsUpTo(OneKeyOff, MaxBatch)

(***************************************************************************)
(* The state before any call.                                              *)
(***************************************************************************)
RoomIdle == floor_plan = Null /\ room_out = Raised
PriceIdle == trade_price = Null /\ price_out = None
AgeIdle == building_year = Null /\ transaction_year = 0 /\ age_out = None
NotCalled == [raised |-> FALSE, v |-> NoRecord]
RecordIdle ==
    /\ api_record = <<>> /\ other_record = <<>>
    /\ first_out = <<>> /\ other_out = <<>> /\ second_out = <<>>
BatchIdle == api_data = <<>> /\ idx = 1 /\ transformed_records = <<>>
ChartIdle ==
    /\ area = <<>> /\ room_type = <<>>
    /\ yearly_avg_price = <<>> /\ yearly_count = <<>>
NormalizersIdle ==
    /\ transformer = NewTransformer
    /\ RoomIdle /\ PriceIdle /\ AgeIdle /\ RecordIdle /\ BatchIdle /\ ChartIdle
FetchIdle ==
    /\ start_year = 0 /\ end_year = 0 /\ fetch_year = 0 /\ fetch_quarter = 0
    /\ all_data = <<>> /\ queries = <<>> /\ response = <<>> /\ fetched = <<>>
ProgressIdle == progress = <<>> /\ files = {}
RunIdle ==
    /\ test_mode = FALSE /\ step_log = <<>> /\ all_prefecture_data = <<>>
    /\ prefecture_dataframes = <<>>
    /\ pref_idx = 1 /\ cell_idx = 1 /\ exc = "none" /\ raised_at = "none"
    /\ exit_status = 0
PairIdle == area_idx = 1 /\ room_idx = 1 /\ charts_generated = 0
ReportIdle == report = <<>> /\ printed = <<>>
PipelineIdle == FetchIdle /\ ProgressIdle /\ RunIdle /\ PairIdle /\ ReportIdle

(***************************************************************************)
(* One call of standardize_room_type.                                      *)
(***************************************************************************)
InitRoom ==
    /\ pc = "call"
    /\ transformer = NewTransformer
    /\ floor_plan \in FloorPlanArgs
    /\ room_out = Raised
    /\ PriceIdle /\ AgeIdle /\ RecordIdle /\ BatchIdle /\ df = <<>> /\ ChartIdle
    /\ PipelineIdle

CallStandardizeRoomType ==
    /\ pc = "call"
    /\ room_out' = standardize_room_type(floor_plan)
    /\ pc' = "return"
    /\ UNCHANGED <<floor_plan, notRoom>>

NextRoom == CallStandardizeRoomType

SpecRoom == InitRoom /\ [][NextRoom]_vars

(***************************************************************************)
(* One call of clean_price.                                                *)
(***************************************************************************)
InitPrice ==
    /\ pc = "call"
    /\ transformer = NewTransformer
    /\ trade_price \in TradePriceArgs
    /\ price_out = None
    /\ RoomIdle /\ AgeIdle /\ RecordIdle /\ BatchIdle /\ df = <<>> /\ ChartIdle
    /\ PipelineIdle

CallCleanPrice ==
    /\ pc = "call"
    /\ price_out' = clean_price(trade_price)
    /\ pc' = "return"
    /\ UNCHANGED <<trade_price, notPrice>>

NextPrice == CallCleanPrice

SpecPrice == InitPrice /\ [][NextPrice]_vars

(***************************************************************************)
(* One call of extract_building_age.                                       *)
(***************************************************************************)
InitAge ==
    /\ pc = "call"
    /\ transformer = NewTransformer
    /\ building_year \in BuildingYearArgs
    /\ transaction_year \in TransactionYearArgs
    /\ age_out = None
    /\ RoomIdle /\ PriceIdle /\ RecordIdle /\ BatchIdle /\ df = <<>> /\ ChartIdle
    /\ PipelineIdle

CallExtractBuildingAge ==
    /\ pc = "call"
    /\ age_out' = extract_building_age(building_year, transaction_year)
    /\ pc' = "return"
    /\ UNCHANGED <<building_year, transaction_year, notAge>>

NextAge == CallExtractBuildingAge

SpecAge == InitAge /\ [][NextAge]_vars

(***************************************************************************)
(* transform_api_record called on api_record, then on another record,     *)
(* then on api_record again.  A call that raises ends the run.             *)
(***************************************************************************)
InitRecord ==
    /\ pc = "call"
    /\ transformer = NewTransformer
    /\ api_record \in RecordArgs
    /\ other_record \in {GoodRecord, [GoodRecord EXCEPT !.Period = Str(Period2021)]}
    /\ first_out = NotCalled /\ other_out = NotCalled /\ second_out = NotCalled
    /\ RoomIdle /\ PriceIdle /\ AgeIdle /\ BatchIdle /\ df = <<>> /\ ChartIdle
    /\ PipelineIdle

FirstCall ==
    /\ pc = "call"
    /\ first_out' = transform_api_record(api_record)
    /\ api_record' = RecordAfterCall(api_record)
    /\ pc' = IF first_out'.raised THEN "raised" ELSE "first"
    /\ UNCHANGED <<other_record, other_out, second_out, notRecord>>

OtherCall ==
    /\ pc = "first"
    /\ other_out' = transform_api_record(other_record)
    /\ other_record' = RecordAfterCall(other_record)
    /\ pc' = "other"
    /\ UNCHANGED <<api_record, first_out, second_out, notRecord>>

SecondCall ==
    /\ pc \in {"first", "other"}
    /\ second_out' = transform_api_record(api_record)
    /\ api_record' = RecordAfterCall(api_record)
    /\ pc' = "second"
    /\ UNCHANGED <<other_record, first_out, other_out, notRecord>>

NextRecord == FirstCall \/ OtherCall \/ SecondCall

SpecRecord == InitRecord /\ [][NextRecord]_vars

(***************************************************************************)
(* transform_api_data, one action per step: the test of the argument, one  *)
(* pass of the for loop, the return.  An exception of the loop body leaves *)
(* the function: the call raises and returns no table.                     *)
(***************************************************************************)
Init ==
    /\ pc = "call"
    /\ transformer = NewTransformer
    /\ api_data \in ApiDataArgs
    /\ idx = 1
    /\ transformed_records = <<>>
    /\ df = <<>>
    /\ RoomIdle /\ PriceIdle /\ AgeIdle /\ RecordIdle /\ ChartIdle
    /\ PipelineIdle

\* lines 210-211: an empty argument returns an empty table at once
TestArgument ==
    /\ pc = "call"
    /\ pc' = IF api_data = <<>> THEN "return" ELSE "loop"
    /\ UNCHANGED <<batchVars, df, notBatch>>

\* lines 217-223
LoopBody ==
    /\ pc = "loop"
    /\ idx <= Len(api_data)
    /\ LET record == api_data[idx]
           transformed == transform_api_record(record)
       IN  IF ~TypeIsValid(record)
           THEN /\ pc' = "loop"
                /\ UNCHANGED <<api_data, transformed_records>>
           ELSE /\ api_data' = [api_data EXCEPT ![idx] = RecordAfterCall(record)]
                /\ IF transformed.raised
                   THEN pc' = "raised" /\ UNCHANGED transformed_records
                   ELSE /\ pc' = "loop"
                        /\ transformed_records' =
                              IF HasPriceAndYear(transformed.v)
                              THEN Append(transformed_records, transformed.v)
                              ELSE transformed_records
    /\ idx' = idx + 1
    /\ UNCHANGED <<df, notBatch>>

\* lines 225-240
ReturnTable ==
    /\ pc = "loop"
    /\ idx > Len(api_data)
    /\ df' = transformed_records
    /\ pc' = "return"
    /\ UNCHANGED <<batchVars, notBatch>>

Next == TestArgument \/ LoopBody \/ ReturnTable

Spec == Init /\ [][Next]_vars

(***************************************************************************)
(* generate_single_chart, up to the two yearly series it plots.  A Series  *)
(* is a sequence of entries in index order; a mean is the quotient         *)
(* num / den, kept as the pair.                                            *)
(***************************************************************************)
ALL == <<"A", "L", "L">>

\* HouseTrendUpdater.room_types
room_types == <<ALL, LDK4, LDK3, LDK2, LDK1, K1>>

\* the rows of df the chart is drawn from (lines 229-232)
Selected(row, a, rt) ==
    /\ row.shikuchosonmei = Str(a)
    /\ rt # ALL => row.madori = rt

Filter(table, a, rt) == SelectSeq(table, LAMBDA row : Selected(row, a, rt))

RECURSIVE SortAscending(_)
SortAscending(S) ==
    IF S = {} THEN <<>>
    ELSE LET least == CHOOSE y \in S : \A z \in S : y <= z
         IN  <<least>> \o SortAscending(S \ {least})

\* a group index that runs over every year from the first to the last
GroupKeys_ZeroFill(rows) ==
    LET years == {rows[i].torihikijiki_nen.v : i \in 1..Len(rows)}
    IN  SortAscending({y \in 2000..2030 :
                          \E lo \in years, hi \in years : lo <= y /\ y <= hi})

\* groupby(year): the distinct years of the rows, sorted
GroupKeys(rows) ==
    SortAscending({rows[i].torihikijiki_nen.v : i \in 1..Len(rows)})

GroupOf(rows, y) == SelectSeq(rows, LAMBDA row : row.torihikijiki_nen.v = y)

RECURSIVE SumPrices(_)
SumPrices(rows) ==
    IF rows = <<>> THEN 0
    ELSE rows[1].torihikikakaku.v + SumPrices(Tail(rows))

\* the mean of the whole selection written under every year
GroupMean_Overall(rows, y) == [num |-> SumPrices(rows), den |-> Len(rows)]

\* groupby(year)[price].mean() for one year
GroupMean(rows, y) ==
    [num |-> SumPrices(GroupOf(rows, y)), den |-> Len(GroupOf(rows, y))]

\* groupby(year)[price].count() for one year
GroupCount(rows, y) == Len(GroupOf(rows, y))

TableRow(muni, madori, year, price) ==
    [shurui |-> Str(Mansion), todofukenmei |-> Str(<<"Tokyo">>),
     shikuchosonmei |-> Str(muni), chikumei |-> Str(<<"Chuo">>),
     moyorieki_meisho |-> <<>>, moyorieki_kyori |-> <<>>,
     torihikikakaku |-> Some(price), madori |-> madori, menseki |-> NoArea,
     kenchikunen |-> Str(<<>>), torihikijiki |-> Str(<<>>),
     torihikijiki_nen |-> Some(year), chikunensu |-> None]

YearPrice == {<<2020, 100>>, <<2020, 200>>, <<2021, 300>>, <<2023, 100>>}
AreaPlan == {<<<<"A">>, K1>>, <<<<"A">>, LDK3>>, <<<<"B">>, K1>>}

TableRows ==
    {TableRow(ap[1], ap[2], yp[1], yp[2]) : ap \in AreaPlan, yp \in YearPrice}

InitChart ==
    /\ pc = "call"
    /\ transformer = NewTransformer
    /\ df \in ListsUpTo(TableRows, MaxRows)
    /\ ChartIdle
    /\ RoomIdle /\ PriceIdle /\ AgeIdle /\ RecordIdle /\ BatchIdle
    /\ PipelineIdle

GenerateSingleChart(a, rt) ==
    /\ pc = "call"
    /\ area' = a
    /\ room_type' = rt
    /\ LET df_filtered == Filter(df, a, rt)
           keys == GroupKeys(df_filtered)
       IN  IF Len(df_filtered) = 0
           THEN /\ pc' = "skipped"
                /\ UNCHANGED <<yearly_avg_price, yearly_count>>
           ELSE /\ pc' = "plotted"
                /\ yearly_avg_price' =
                      [i \in 1..Len(keys) |->
                          [nen |-> keys[i], mean |-> GroupMean(df_filtered, keys[i])]]
                /\ yearly_count' =
                      [i \in 1..Len(keys) |->
                          [nen |-> keys[i], count |-> GroupCount(df_filtered, keys[i])]]
    /\ UNCHANGED <<df, notChart>>

NextChart ==
    \E a \in {<<"A">>, <<"B">>}, i \in 1..Len(room_types) :
        GenerateSingleChart(a, room_types[i])

SpecChart == InitChart /\ [][NextChart]_vars

(***************************************************************************)
(* C7: the aggregation gives, for each year of the selected records, the   *)
(* arithmetic mean of the prices of that year's records and their number.  *)
(***************************************************************************)
\* the rows of df, by position, that are selected and fall in year y
RowsOfYear(y) ==
    {k \in 1..Len(df) :
        Selected(df[k], area, room_type) /\ df[k].torihikijiki_nen.v = y}

RECURSIVE PriceTotal(_)
PriceTotal(K) ==
    IF K = {} THEN 0
    ELSE LET k == CHOOSE j \in K : TRUE
         IN  df[k].torihikikakaku.v + PriceTotal(K \ {k})

C7_MeanAndCountPerYear ==
    pc = "plotted" =>
        /\ Len(yearly_avg_price) = Len(yearly_count)
        /\ \A i \in 1..Len(yearly_avg_price) :
              LET y == yearly_avg_price[i].nen
                  mean == yearly_avg_price[i].mean
                  n == Cardinality(RowsOfYear(y))
              IN  /\ yearly_count[i].nen = y
                  /\ yearly_count[i].count = n
                  /\ mean.den # 0
                  /\ mean.num * n = PriceTotal(RowsOfYear(y)) * mean.den

\* the spec's example: years 2020, 2020, 2021 with prices 100, 200, 300
C7_Witness ==
    /\ pc = "plotted"
    /\ Len(df) = 3
    /\ area = <<"A">> /\ room_type = ALL
    /\ \A k \in 1..3 : df[k].shikuchosonmei = Str(<<"A">>)
    /\ df[1].torihikijiki_nen = Some(2020) /\ df[1].torihikikakaku = Some(100)
    /\ df[2].torihikijiki_nen = Some(2020) /\ df[2].torihikikakaku = Some(200)
    /\ df[3].torihikijiki_nen = Some(2021) /\ df[3].torihikikakaku = Some(300)
    /\ Len(yearly_avg_price) = 2
    /\ yearly_avg_price[1].nen = 2020
    /\ yearly_avg_price[1].mean.num = 150 * yearly_avg_price[1].mean.den
    /\ yearly_count[1] = [nen |-> 2020, count |-> 2]
    /\ yearly_avg_price[2].nen = 2021
    /\ yearly_avg_price[2].mean.num = 300 * yearly_avg_price[2].mean.den
    /\ yearly_count[2] = [nen |-> 2021, count |-> 1]

(***************************************************************************)
(* C8: the years of the aggregated series are exactly the transaction      *)
(* years of the selected records, in ascending order: a year without a     *)
(* selected record has no entry.                                           *)
(***************************************************************************)
SelectedYears ==
    {df[k].torihikijiki_nen.v : k \in {j \in 1..Len(df) : Selected(df[j], area, room_type)}}

C8_YearsExactlySelected ==
    pc = "plotted" =>
        /\ {yearly_avg_price[i].nen : i \in 1..Len(yearly_avg_price)} = SelectedYears
        /\ {yearly_count[i].nen : i \in 1..Len(yearly_count)} = SelectedYears
        /\ \A i \in 1..Len(yearly_count) : yearly_count[i].count > 0
        /\ \A i \in 1..(Len(yearly_avg_price) - 1) :
              yearly_avg_price[i].nen < yearly_avg_price[i + 1].nen
        /\ \A i \in 1..(Len(yearly_count) - 1) :
              yearly_count[i].nen < yearly_count[i + 1].nen

\* records of 2021 and 2023 only: the series has no entry for 2022
C8_Witness ==
    /\ pc = "plotted"
    /\ SelectedYears = {2021, 2023}
    /\ Len(yearly_count) = 2
    /\ yearly_count[1].nen = 2021
    /\ yearly_count[2].nen = 2023

(***************************************************************************)
(* C1: every record of the table transform_api_data returns has a present  *)
(* price, a present transaction year and a type of valid_property_types.   *)
(***************************************************************************)
C1_OutputAdmissible ==
    pc = "return" =>
        \A i \in 1..Len(df) :
            /\ df[i].torihikikakaku.some
            /\ df[i].torihikijiki_nen.some
            /\ df[i].shurui.kind = "str"
            /\ df[i].shurui.s \in {Mansion, TakuchiTatemono, Tochi, Tatemono}

\* a returned table that kept one record of the list and dropped another
C1_Witness ==
    /\ pc = "return"
    /\ Len(api_data) = 2
    /\ Len(df) = 1

(***************************************************************************)
(* C2: transform_api_data keeps a raw record if and only if it is          *)
(* admissible: its type is valid, clean_price returns a non-negative       *)
(* integer (any such integer) and extract_year_from_period returns an      *)
(* integer (any such integer).                                             *)
(***************************************************************************)
Admissible(rec) ==
    /\ TypeIsValid(rec)
    /\ clean_price(Get(rec, "TradePrice")).some
    /\ clean_price(Get(rec, "TradePrice")).v >= 0
    /\ extract_year_from_period(Get(rec, "Period")).some

TransformedOf(rec) == transform_api_record(rec).v

C2_KeepsExactlyAdmissible ==
    pc = "return" =>
        LET admitted == SelectSeq(api_data, Admissible)
        IN  /\ Len(df) = Len(admitted)
            /\ \A i \in 1..Len(admitted) : df[i] = TransformedOf(admitted[i])

(***************************************************************************)
(* C3: transform_api_data never raises on a bad record: whatever the       *)
(* fields of a record hold (missing, null, empty, a number, a list), the   *)
(* call runs to its return, and every record of the list has been passed.  *)
(***************************************************************************)
C3_NeverAborts ==
    /\ pc # "raised"
    /\ pc = "return" => (api_data = <<>> \/ idx = Len(api_data) + 1)

C10_NoFallbackLeak ==
    pc \in {"first", "other", "second"} =>
        LET period == api_record.Period
            year == first_out.v.torihikijiki_nen
            parses == period.kind = "str" /\ \E i \in 1..Len(period.s) : YearMatchAt(period.s, i)
        IN  IF parses
            THEN /\ year.some
                 /\ \E i \in 1..Len(period.s) :
                       /\ YearMatchAt(period.s, i)
                       /\ year.v = DecValue(SubSeq(period.s, i, i + 3))
            ELSE year = None

\* no year in the period: the age is counted from the fallback year, the year stays absent
C10_Witness ==
    /\ pc = "first"
    /\ api_record.Period = Str(<<"x">>)
    /\ api_record.BuildingYear = Str(Built2003)
    /\ first_out.v.chikunensu = Some(FallbackYear - 2003)
    /\ first_out.v.torihikijiki_nen = None

(***************************************************************************)
(* C4: for every non-empty string, standardize_room_type returns (never    *)
(* raises, never absent) one of the seven fixed categories: the six room   *)
(* categories or the 'other' value.                                        *)
(***************************************************************************)
Categories == {R1, K1, LDK1, LDK2, LDK3, LDK4, Sonota}

C4_RoomTypeInCategories ==
    (pc = "return" /\ floor_plan.kind = "str" /\ floor_plan.s # <<>>)
        => (~room_out.raised /\ room_out.v \in Categories)

\* the spec's two examples: the 1DK label gives 1K, an unknown label gives 'other'
C4_Witness ==
    /\ pc = "return"
    /\ \/ floor_plan = Str(<<"F1", "FD", "FK">>) /\ room_out = Returned(K1)
       \/ floor_plan = Str(<<"x", "x">>) /\ room_out = Returned(Sonota)

(***************************************************************************)
(* C5: clean_price on a string returns the non-negative integer written by *)
(* the string's digit characters in their order, and absent when the       *)
(* string holds no digit.                                                  *)
(***************************************************************************)
\* the number the digits of s write, read left to right; -1 when s has no digit
RECURSIVE DigitsNumber(_, _)
DigitsNumber(s, acc) ==
    IF s = <<>> THEN acc
    ELSE IF IsDigit(s[1])
         THEN DigitsNumber(Tail(s), (IF acc < 0 THEN 0 ELSE acc * 10) + DigitVal(s[1]))
         ELSE DigitsNumber(Tail(s), acc)

C5_CleanPriceDigits ==
    (pc = "return" /\ trade_price.kind = "str")
        => LET n == DigitsNumber(trade_price.s, 0 - 1)
           IN  IF n < 0 THEN price_out = None ELSE price_out = Some(n)

\* a price with a currency sign and a separator, and a label with no digit
C5_Witness ==
    /\ pc = "return"
    /\ \/ trade_price = Str(<<"yen", "1", "2", ",">>) /\ price_out = Some(12)
       \/ trade_price = Str(<<"N">>) /\ price_out = None

(***************************************************************************)
(* C6: extract_building_age returns absent or an integer >= 0; a built     *)
(* year after the transaction year gives 0.                                *)
(***************************************************************************)
C6_AgeNonNegative ==
    pc = "return" =>
        /\ age_out.some => age_out.v >= 0
        /\ \A y \in {2003, 2030} :
              (building_year = Str(NatStr(y) \o <<"nen">>) /\ y > transaction_year)
                  => age_out = Some(0)

\* built 2030, sold 2024: the age is clamped to 0
C6_Witness ==
    /\ pc = "return"
    /\ building_year = Str(<<"2", "0", "3", "0", "nen">>)
    /\ transaction_year = 2024
    /\ age_out = Some(0)

(***************************************************************************)
(* The fetch grid of one prefecture (api_client.py).  The API's answer to  *)
(* one query is a record: the exception requests.get raised if any, the    *)
(* HTTP status code, and the body: whether it decodes as JSON, whether the *)
(* decoded value is an object, its 'status', whether it has a 'data' key,  *)
(* whether 'data' is a list, and the list's records.  A raw record is      *)
(* [is_object, id]; a record of the wrong shape is a JSON string.          *)
(***************************************************************************)
MaxYears == 2

Body(decodes, is_object, status, has_data, data_is_list, records) ==
    [decodes |-> decodes, is_object |-> is_object, status |-> status,
     has_data |-> has_data, data_is_list |-> data_is_list, records |-> records]

NoBody == Body(FALSE, FALSE, "", FALSE, FALSE, <<>>)

Answer(exception, status_code, body) ==
    [exception |-> exception, status_code |-> status_code, body |-> body]

RawObject(id) == [is_object |-> TRUE, id |-> id]
RawString(id) == [is_object |-> FALSE, id |-> id]

TwoRecords == Body(TRUE, TRUE, "OK", TRUE, TRUE, <<RawObject(1), RawObject(2)>>)
NoRecords == Body(TRUE, TRUE, "OK", TRUE, TRUE, <<>>)

\* the answers with which the query of a cell fails
FailedAnswers ==
    { Answer("Timeout", 0, NoBody),
      Answer("ConnectionError", 0, NoBody),
      Answer("none", 500, NoBody),
      Answer("none", 200, Body(TRUE, TRUE, "ERROR", FALSE, FALSE, <<>>)),
      Answer("none", 200, NoBody),
      Answer("none", 200, Body(TRUE, FALSE, "", FALSE, FALSE, <<>>)),
      Answer("none", 200, Body(TRUE, TRUE, "OK", TRUE, FALSE, <<>>)),
      Answer("none", 200, Body(TRUE, TRUE, "OK", TRUE, TRUE, <<RawString(1)>>)) }

Answers == FailedAnswers \cup {Answer("none", 200, TwoRecords), Answer("none", 200, NoRecords)}

\* fetch_quarter_data, from the answer of requests.get on
fetch_quarter_data(ans) ==
    IF ans.exception # "none" THEN Returned(<<>>)
    ELSE IF ans.status_code # 200 THEN Returned(<<>>)
    ELSE IF ~ans.body.decodes THEN Returned(<<>>)
    ELSE IF ~ans.body.is_object THEN Raised
    ELSE IF ans.body.status = "OK" /\ ans.body.has_data
         THEN IF ans.body.data_is_list THEN Returned(ans.body.records) ELSE Raised
    ELSE Returned(<<>>)

\* the metadata added to each record of a quarter (lines 153-158)
Tagged(quarter_data, y, q) ==
    [i \in 1..Len(quarter_data) |->
        [id |-> quarter_data[i].id, prefecture_code |-> "13",
         fetch_year |-> y, fetch_quarter |-> q]]

CanTag(quarter_data) == \A i \in 1..Len(quarter_data) : quarter_data[i].is_object

InitFetch ==
    /\ pc = "grid"
    /\ start_year \in {2023, 2024}
    /\ end_year \in (start_year - 1)..(start_year + MaxYears - 1)
    /\ fetch_year = start_year /\ fetch_quarter = 1
    /\ all_data = <<>> /\ queries = <<>> /\ response = <<>> /\ fetched = <<>>
    /\ NormalizersIdle /\ df = <<>>
    /\ ProgressIdle /\ RunIdle /\ PairIdle /\ ReportIdle

\* requests.get is called for the cell (fetch_year, fetch_quarter)
IssueQuery ==
    /\ pc = "grid"
    /\ fetch_year <= end_year
    /\ queries' = Append(queries, <<fetch_year, fetch_quarter>>)
    /\ pc' = "waiting"
    /\ UNCHANGED <<start_year, end_year, fetch_year, fetch_quarter, all_data, response,
                   fetched, notFetch>>

\* the answer arrives; the rest of the loop body runs
ReceiveAnswer(ans) ==
    /\ pc = "waiting"
    /\ response' = ans
    /\ LET quarter_data == fetch_quarter_data(ans)
       IN  IF quarter_data.raised \/ ~CanTag(quarter_data.v)
           THEN /\ pc' = "fetch_raised"
                /\ UNCHANGED <<all_data, fetch_year, fetch_quarter>>
           ELSE /\ pc' = "grid"
                /\ all_data' = all_data \o Tagged(quarter_data.v, fetch_year, fetch_quarter)
                /\ IF fetch_quarter < 4
                   THEN fetch_quarter' = fetch_quarter + 1 /\ UNCHANGED fetch_year
                   ELSE fetch_quarter' = 1 /\ fetch_year' = fetch_year + 1
    /\ UNCHANGED <<start_year, end_year, queries, fetched, notFetch>>

\* the loops are over: return all_data
ReturnAllData ==
    /\ pc = "grid"
    /\ fetch_year > end_year
    /\ fetched' = all_data
    /\ pc' = "fetch_returned"
    /\ UNCHANGED <<start_year, end_year, fetch_year, fetch_quarter, all_data, queries,
                   response, notFetch>>

NextFetch ==
    \/ IssueQuery
    \/ \E ans \in Answers : ReceiveAnswer(ans)
    \/ ReturnAllData

SpecFetch == InitFetch /\ [][NextFetch]_vars

(***************************************************************************)
(* C11: when the query of a cell fails (timeout, HTTP status other than    *)
(* 2xx, status field other than OK, malformed body), the cell contributes  *)
(* no record, the records fetched before are kept and the grid goes on to  *)
(* the next cell: the grid is not aborted.                                 *)
(***************************************************************************)
C11_FailedCellTolerated ==
    [][(pc = "waiting" /\ response' \in FailedAnswers)
          => (pc' = "grid" /\ all_data' = all_data)]_vars

(***************************************************************************)
(* C16: fetch_prefecture_data issues exactly one query per cell of the     *)
(* grid, (end_year - start_year + 1) * 4 of them, in ascending order of    *)
(* (year, quarter), whichever cells fail or return no data.                *)
(***************************************************************************)
GridCells(first, last) ==
    [k \in 1..((last - first + 1) * 4) |-> <<first + ((k - 1) \div 4), ((k - 1) % 4) + 1>>]

C16_OneQueryPerCell ==
    /\ pc \in {"fetch_returned", "fetch_raised"}
          => queries = GridCells(start_year, end_year)
    /\ pc \in {"grid", "waiting"}
          => /\ Len(queries) <= Len(GridCells(start_year, end_year))
             /\ queries = SubSeq(GridCells(start_year, end_year), 1, Len(queries))

(***************************************************************************)
(* run_full_update.py's main and HouseTrendUpdater.run_full_update.  The   *)
(* fetch step is the grid of every prefecture, one cell at a time; a       *)
(* prefecture's data is the number of its records.  The transform and the  *)
(* chart step go prefecture by prefecture.  Any step can raise an          *)
(* exception that nothing inside the step catches, and the operator can    *)
(* interrupt the run (KeyboardInterrupt is not an Exception).  Times are   *)
(* not modelled.                                                           *)
(***************************************************************************)
MaxPrefectures == 2
MaxCells == 2

\* MLITAPIClient.prefecture_codes, in the order of the dict
prefecture_codes == <<"tokyo", "chiba", "saitama", "kanagawa", "osaka", "aichi">>

\* the prefectures of the run: Tokyo alone in test mode
Prefectures(test) ==
    IF test THEN <<"tokyo">> ELSE SubSeq(prefecture_codes, 1, MaxPrefectures)

NewProgress ==
    [prefectures_completed |-> 0, total_records |-> 0, charts_generated |-> 0,
     errors |-> <<>>]

\* a fetch step that dumps each prefecture's raw records as it goes
StepFiles_RawDump(step, prefecture) ==
    CASE step = "fetch" -> {<<"api_data", prefecture, "raw">>}
      [] step = "transform" -> {<<"data", prefecture, "csv">>}
      [] step = "charts" -> {<<"img", prefecture, "jp">>, <<"img", prefecture, "en">>}
      [] step = "report" -> {<<"api_data", "completion_report", "json">>}

\* the files a step writes for one prefecture when nothing fails
StepFiles(step, prefecture) ==
    CASE step = "fetch" -> {}
      [] step = "transform" -> {<<"data", prefecture, "csv">>}
      [] step = "charts" -> {<<"img", prefecture, "jp">>, <<"img", prefecture, "en">>}
      [] step = "report" -> {<<"api_data", "completion_report", "json">>}

\* an except clause that only re-raises
ExceptHandler_Silent(prog, message) == prog

\* except Exception as e: self.progress['errors'].append(str(e))
ExceptHandler(prog, message) == [prog EXCEPT !.errors = Append(@, message)]

InitRun ==
    /\ pc = "main"
    /\ test_mode \in BOOLEAN
    /\ step_log = <<>> /\ all_prefecture_data = <<>> /\ prefecture_dataframes = <<>>
    /\ pref_idx = 1 /\ cell_idx = 1
    /\ exc = "none" /\ raised_at = "none" /\ exit_status = 0
    /\ progress = <<>> /\ files = {}
    /\ NormalizersIdle /\ df = <<>>
    /\ FetchIdle /\ PairIdle /\ ReportIdle

\* main asks for confirmation
Confirm(answer) ==
    /\ pc = "main"
    /\ pc' = IF answer \in {"yes", "y"} THEN "construct" ELSE "exited"
    /\ UNCHANGED <<progressVars, runVars, notRun>>

\* HouseTrendUpdater(): raises when the API key is not configured
Construct(configured) ==
    /\ pc = "construct"
    /\ IF configured
       THEN /\ progress' = NewProgress
            /\ all_prefecture_data' = [i \in 1..Len(Prefectures(test_mode)) |-> 0]
            /\ step_log' = <<"fetch">>
            /\ pc' = "fetch"
            /\ UNCHANGED <<exc, raised_at>>
       ELSE /\ exc' = "Exception" /\ raised_at' = "construct"
            /\ pc' = "main_except"
            /\ UNCHANGED <<progress, all_prefecture_data, step_log>>
    /\ UNCHANGED <<files, test_mode, prefecture_dataframes, pref_idx, cell_idx,
                   exit_status, notRun>>

\* an exception leaves the running step: the except clause of run_full_update
Escape(step) ==
    /\ exc' = "Exception" /\ raised_at' = step
    /\ pc' = "handler"

\* step 1, one cell of the grid of prefecture pref_idx
FetchCell(outcome) ==
    /\ pc = "fetch"
    /\ pref_idx <= Len(Prefectures(test_mode))
    /\ files' = files \cup StepFiles("fetch", Prefectures(test_mode)[pref_idx])
    /\ CASE outcome = "records" ->
              /\ all_prefecture_data' = [all_prefecture_data EXCEPT ![pref_idx] = @ + 1]
              /\ IF cell_idx < MaxCells
                 THEN cell_idx' = cell_idx + 1 /\ UNCHANGED pref_idx
                 ELSE cell_idx' = 1 /\ pref_idx' = pref_idx + 1
              /\ UNCHANGED <<pc, exc, raised_at>>
         [] outcome = "empty" ->
              /\ IF cell_idx < MaxCells
                 THEN cell_idx' = cell_idx + 1 /\ UNCHANGED pref_idx
                 ELSE cell_idx' = 1 /\ pref_idx' = pref_idx + 1
              /\ UNCHANGED <<pc, exc, raised_at, all_prefecture_data>>
         [] outcome = "raises" /\ test_mode ->
              /\ Escape("fetch")
              /\ UNCHANGED <<all_prefecture_data, cell_idx, pref_idx>>
         [] outcome = "raises" /\ ~test_mode ->
              /\ all_prefecture_data' = [all_prefecture_data EXCEPT ![pref_idx] = 0]
              /\ cell_idx' = 1 /\ pref_idx' = pref_idx + 1
              /\ UNCHANGED <<pc, exc, raised_at>>
    /\ UNCHANGED <<progress, test_mode, step_log, prefecture_dataframes, exit_status,
                   notRun>>

\* step 1 is over: step 2 begins
BeginTransform ==
    /\ pc = "fetch"
    /\ pref_idx > Len(Prefectures(test_mode))
    /\ pc' = "transform"
    /\ step_log' = Append(step_log, "transform")
    /\ prefecture_dataframes' = [i \in 1..Len(Prefectures(test_mode)) |-> 0]
    /\ pref_idx' = 1
    /\ UNCHANGED <<progressVars, test_mode, all_prefecture_data, cell_idx, exc,
                   raised_at, exit_status, notRun>>

\* step 2 for one prefecture: valid of its records are kept by the transformer
TransformPrefecture(valid, raises) ==
    /\ pc = "transform"
    /\ pref_idx <= Len(Prefectures(test_mode))
    /\ valid \in {0, all_prefecture_data[pref_idx]}
    /\ raises => all_prefecture_data[pref_idx] > 0
    /\ IF raises
       THEN /\ Escape("transform")
            /\ UNCHANGED <<progress, files, prefecture_dataframes, pref_idx>>
       ELSE /\ prefecture_dataframes' = [prefecture_dataframes EXCEPT ![pref_idx] = valid]
            /\ files' = IF valid > 0
                        THEN files \cup StepFiles("transform", Prefectures(test_mode)[pref_idx])
                        ELSE files
            /\ progress' = [progress EXCEPT
                               !.total_records = @ + valid,
                               !.prefectures_completed = @ + 1]
            /\ pref_idx' = pref_idx + 1
            /\ UNCHANGED <<pc, exc, raised_at>>
    /\ UNCHANGED <<test_mode, step_log, all_prefecture_data, cell_idx, exit_status, notRun>>

\* step 2 is over: step 3 begins
BeginCharts ==
    /\ pc = "transform"
    /\ pref_idx > Len(Prefectures(test_mode))
    /\ pc' = "charts"
    /\ step_log' = Append(step_log, "charts")
    /\ pref_idx' = 1
    /\ UNCHANGED <<progressVars, test_mode, all_prefecture_data, prefecture_dataframes,
                   cell_idx, exc, raised_at, exit_status, notRun>>

\* step 3 for one prefecture, one pair of charts standing for all of them
ChartsPrefecture(outcome) ==
    /\ pc = "charts"
    /\ pref_idx <= Len(Prefectures(test_mode))
    /\ CASE prefecture_dataframes[pref_idx] = 0 ->
              /\ outcome = "ok"
              /\ pref_idx' = pref_idx + 1
              /\ UNCHANGED <<progress, files, pc, exc, raised_at>>
         [] prefecture_dataframes[pref_idx] > 0 /\ outcome = "ok" ->
              /\ files' = files \cup StepFiles("charts", Prefectures(test_mode)[pref_idx])
              /\ progress' = [progress EXCEPT !.charts_generated = @ + 2]
              /\ pref_idx' = pref_idx + 1
              /\ UNCHANGED <<pc, exc, raised_at>>
         [] prefecture_dataframes[pref_idx] > 0 /\ outcome = "chart_failed" ->
              /\ progress' = [progress EXCEPT !.errors = Append(@, "chart")]
              /\ pref_idx' = pref_idx + 1
              /\ UNCHANGED <<files, pc, exc, raised_at>>
         [] prefecture_dataframes[pref_idx] > 0 /\ outcome = "raises" ->
              /\ Escape("charts")
              /\ UNCHANGED <<progress, files, pref_idx>>
    /\ UNCHANGED <<test_mode, step_log, all_prefecture_data, prefecture_dataframes,
                   cell_idx, exit_status, notRun>>

\* step 3 is over: step 4 begins
BeginReport ==
    /\ pc = "charts"
    /\ pref_idx > Len(Prefectures(test_mode))
    /\ pc' = "report"
    /\ step_log' = Append(step_log, "report")
    /\ UNCHANGED <<progressVars, test_mode, all_prefecture_data, prefecture_dataframes,
                   pref_idx, cell_idx, exc, raised_at, exit_status, notRun>>

\* step 4: the report file is written, or writing it raises
WriteReport(raises) ==
    /\ pc = "report"
    /\ IF raises
       THEN Escape("report") /\ UNCHANGED files
       ELSE /\ files' = files \cup StepFiles("report", "")
            /\ pc' = "finished"
            /\ UNCHANGED <<exc, raised_at>>
    /\ UNCHANGED <<progress, test_mode, step_log, all_prefecture_data,
                   prefecture_dataframes, pref_idx, cell_idx, exit_status, notRun>>

\* lines 85-88: record the error and re-raise
HandleException ==
    /\ pc = "handler"
    /\ progress' = ExceptHandler(progress, raised_at)
    /\ pc' = "main_except"
    /\ UNCHANGED <<files, runVars, notRun>>

\* the operator interrupts a running step
Interrupt ==
    /\ pc \in {"fetch", "transform", "charts", "report"}
    /\ exc' = "KeyboardInterrupt" /\ raised_at' = pc
    /\ pc' = "main_except"
    /\ UNCHANGED <<progressVars, test_mode, step_log, all_prefecture_data,
                   prefecture_dataframes, pref_idx, cell_idx, exit_status, notRun>>

\* main's except clauses: sys.exit(1)
MainExcept ==
    /\ pc = "main_except"
    /\ exit_status' = 1
    /\ pc' = "exited"
    /\ UNCHANGED <<progressVars, test_mode, step_log, all_prefecture_data,
                   prefecture_dataframes, pref_idx, cell_idx, exc, raised_at, notRun>>

\* run_full_update returned: main prints the success message and ends
MainReturn ==
    /\ pc = "finished"
    /\ pc' = "exited"
    /\ UNCHANGED <<progressVars, runVars, notRun>>

NextRun ==
    \/ \E answer \in {"yes", "no"} : Confirm(answer)
    \/ \E configured \in BOOLEAN : Construct(configured)
    \/ \E outcome \in {"records", "empty", "raises"} : FetchCell(outcome)
    \/ BeginTransform
    \/ \E valid \in 0..MaxCells, raises \in BOOLEAN : TransformPrefecture(valid, raises)
    \/ BeginCharts
    \/ \E outcome \in {"ok", "chart_failed", "raises"} : ChartsPrefecture(outcome)
    \/ BeginReport
    \/ \E raises \in BOOLEAN : WriteReport(raises)
    \/ HandleException
    \/ Interrupt
    \/ MainExcept
    \/ MainReturn

SpecRun == InitRun /\ [][NextRun]_vars

(***************************************************************************)
(* C12: when an exception escapes a step of run_full_update (fetch,        *)
(* transform-and-save, chart generation, report), no later step is begun,  *)
(* the error is appended to the progress error list, the exception is      *)
(* re-raised to main, and main ends with exit status 1.                    *)
(***************************************************************************)
C12_AbortOnException ==
    (exc = "Exception" /\ raised_at # "construct")
        => /\ pc \in {"handler", "main_except", "exited"}
           /\ step_log[Len(step_log)] = raised_at
           /\ pc \in {"main_except", "exited"}
                 => /\ progress.errors # <<>>
                    /\ progress.errors[Len(progress.errors)] = raised_at
           /\ pc = "exited" => exit_status = 1

\* the transform step raised after the fetch step: charts and report never began
C12_Witness ==
    /\ pc = "exited" /\ exc = "Exception" /\ raised_at = "transform"
    /\ step_log = <<"fetch", "transform">>
    /\ progress.errors = <<"transform">>
    /\ exit_status = 1

(***************************************************************************)
(* C15: no output file (normalized CSV, chart image, completion report) is *)
(* written while the fetch grid is not finished, so a run that ends during *)
(* the fetch step leaves no file written.                                  *)
(***************************************************************************)
C15_NoFileDuringFetch ==
    (pc \in {"main", "construct", "fetch"} \/ raised_at \in {"construct", "fetch"})
        => files = {}

\* records were fetched, then the run was interrupted in the fetch step
C15_Witness ==
    /\ pc = "exited" /\ raised_at = "fetch" /\ exc = "KeyboardInterrupt"
    /\ \E i \in 1..Len(all_prefecture_data) : all_prefecture_data[i] > 0
    /\ files = {}

(***************************************************************************)
(* generate_charts_for_prefecture: for every area of the table and every   *)
(* room type, the Japanese chart and then the English chart.  A rendering  *)
(* call writes its image with savefig, or raises (the disk is full, the    *)
(* output directory is not writable); a call whose selection is empty      *)
(* returns before it draws anything.  A chart file is named by area, room  *)
(* type and language.                                                      *)
(***************************************************************************)
MaxChartRows == 2

\* df[municipality].unique(): the values in order of first appearance
RECURSIVE Unique(_)
Unique(table) ==
    IF table = <<>> THEN <<>>
    ELSE LET before == Unique(SubSeq(table, 1, Len(table) - 1))
             last == table[Len(table)].shikuchosonmei
         IN  IF \E i \in 1..Len(before) : before[i] = last THEN before
             ELSE Append(before, last)

\* the areas the loop runs over (the first 3 in test mode)
Areas(table, test) ==
    IF test /\ Len(Unique(table)) > 3 THEN SubSeq(Unique(table), 1, 3) ELSE Unique(table)

ChartFile(a, rt, language) == <<a, rt, language>>

ChartRows == {TableRow(ap[1], ap[2], 2021, 300) : ap \in AreaPlan}

InitCharts ==
    /\ pc = "charts_call"
    /\ df \in ListsUpTo(ChartRows, MaxChartRows)
    /\ test_mode \in BOOLEAN
    /\ progress = NewProgress /\ files = {}
    /\ PairIdle
    /\ step_log = <<>> /\ all_prefecture_data = <<>> /\ prefecture_dataframes = <<>>
    /\ pref_idx = 1 /\ cell_idx = 1 /\ exc = "none" /\ raised_at = "none"
    /\ exit_status = 0
    /\ NormalizersIdle /\ FetchIdle /\ ReportIdle

\* lines 141-154: an empty table returns 0 at once
EnterChartLoop ==
    /\ pc = "charts_call"
    /\ pc' = IF df = <<>> THEN "charts_returned" ELSE "chart_loop"
    /\ UNCHANGED <<df, progressVars, pairVars, notPair>>

\* the body of the two loops for areas[area_idx] and room_types[room_idx]
GeneratePair(outcome) ==
    /\ pc = "chart_loop"
    /\ area_idx <= Len(Areas(df, test_mode))
    /\ LET a == Areas(df, test_mode)[area_idx].s
           rt == room_types[room_idx]
           drawn == Filter(df, a, rt) # <<>>
       IN  CASE ~drawn ->
                  /\ outcome = "both_ok"
                  /\ charts_generated' = charts_generated + 2
                  /\ progress' = [progress EXCEPT !.charts_generated = @ + 2]
                  /\ UNCHANGED files
             [] drawn /\ outcome = "both_ok" ->
                  /\ files' = files \cup {ChartFile(a, rt, "jp"), ChartFile(a, rt, "en")}
                  /\ charts_generated' = charts_generated + 2
                  /\ progress' = [progress EXCEPT !.charts_generated = @ + 2]
             [] drawn /\ outcome = "jp_raises" ->
                  /\ progress' = [progress EXCEPT !.errors = Append(@, <<a, rt>>)]
                  /\ UNCHANGED <<files, charts_generated>>
             [] drawn /\ outcome = "en_raises" ->
                  /\ files' = files \cup {ChartFile(a, rt, "jp")}
                  /\ progress' = [progress EXCEPT !.errors = Append(@, <<a, rt>>)]
                  /\ UNCHANGED charts_generated
    /\ IF room_idx < Len(room_types)
       THEN room_idx' = room_idx + 1 /\ UNCHANGED area_idx
       ELSE room_idx' = 1 /\ area_idx' = area_idx + 1
    /\ UNCHANGED <<pc, df, notPair>>

\* line 172: return charts_generated
ReturnCharts ==
    /\ pc = "chart_loop"
    /\ area_idx > Len(Areas(df, test_mode))
    /\ pc' = "charts_returned"
    /\ UNCHANGED <<df, progressVars, pairVars, notPair>>

NextCharts ==
    \/ EnterChartLoop
    \/ \E outcome \in {"both_ok", "jp_raises", "en_raises"} : GeneratePair(outcome)
    \/ ReturnCharts

SpecCharts == InitCharts /\ [][NextCharts]_vars

(***************************************************************************)
(* C14: for every (area, room type) the chart step has processed, whatever *)
(* the outcome of the two rendering calls, either both the Japanese and    *)
(* the English image have been written or neither.                         *)
(***************************************************************************)
C14_BothLanguagesOrNeither ==
    \A i \in 1..Len(df), j \in 1..Len(room_types) :
        LET a == df[i].shikuchosonmei.s
        IN  ChartFile(a, room_types[j], "jp") \in files
                <=> ChartFile(a, room_types[j], "en") \in files

(***************************************************************************)
(* generate_completion_report: the dict dumped to the report file and the  *)
(* error lines of the printed summary.  An error message is identified by  *)
(* its number in the order of recording; times are not modelled.           *)
(***************************************************************************)
MaxErrors == 12
EchoLimit == 10

\* a summary that prints every error
PrintedErrors_All(errors) == [shown |-> errors, more |-> 0]

\* lines 349-354: the first errors and how many more there are
PrintedErrors(errors) ==
    [shown |-> SubSeq(errors, 1, IF Len(errors) < EchoLimit THEN Len(errors) ELSE EchoLimit),
     more |-> IF Len(errors) > EchoLimit THEN Len(errors) - EchoLimit ELSE 0]

\* lines 326-334
ReportOf(prog) ==
    [prefectures_completed |-> prog.prefectures_completed,
     total_records_processed |-> prog.total_records,
     charts_generated |-> prog.charts_generated,
     errors_count |-> Len(prog.errors),
     errors |-> prog.errors]

InitReport ==
    /\ pc = "report_call"
    /\ progress \in
          [prefectures_completed : {1}, total_records : {0, 7},
           charts_generated : {0, 2, 4, 6},
           errors : {[i \in 1..n |-> i] : n \in 0..MaxErrors}]
    /\ files = {}
    /\ ReportIdle
    /\ NormalizersIdle /\ df = <<>>
    /\ FetchIdle /\ RunIdle /\ PairIdle

GenerateCompletionReport ==
    /\ pc = "report_call"
    /\ report' = ReportOf(progress)
    /\ files' = files \cup {<<"api_data", "completion_report", "json">>}
    /\ printed' = PrintedErrors(progress.errors)
    /\ pc' = "report_written"
    /\ UNCHANGED <<progress, notReport>>

NextReport == GenerateCompletionReport

SpecReport == InitReport /\ [][NextReport]_vars

(***************************************************************************)
(* C13, as claimed: however many errors the run accumulated, the report    *)
(* written to the file holds at most the first 10 of them.                 *)
(***************************************************************************)
C13_ReportErrorsBounded ==
    pc = "report_written" =>
        /\ Len(report.errors) <= EchoLimit
        /\ report.errors = SubSeq(progress.errors, 1, Len(report.errors))

(***************************************************************************)
(* C13, amended: the report file holds every error and their number; the   *)
(* printed summary is the bounded one: the first 10 errors, then the       *)
(* number of the remaining ones when there are more than 10.               *)
(***************************************************************************)
C13_PrintedErrorsBounded ==
    pc = "report_written" =>
        /\ report.errors = progress.errors
        /\ report.errors_count = Len(progress.errors)
        /\ Len(printed.shown) <= EchoLimit
        /\ printed.shown = SubSeq(progress.errors, 1, Len(printed.shown))
        /\ Len(printed.shown) + printed.more = Len(progress.errors)
        /\ printed.more > 0 => Len(printed.shown) = EchoLimit

\* eleven errors: ten are printed and one is counted, all eleven are in the file
C13_Witness ==
    /\ pc = "report_written"
    /\ Len(progress.errors) = EchoLimit + 1
    /\ Len(printed.shown) = EchoLimit /\ printed.more = 1
    /\ Len(report.errors) = EchoLimit + 1

(***************************************************************************)
(* C17: a trimmed label that is a key of the lookup table gets the table's *)
(* value; any other label gets the category of the first marker it         *)
(* contains in the order 1R, 1K, 1LDK, 2LDK, 3LDK, 4LDK (either script),   *)
(* and 'other' when it contains none.                                      *)
(***************************************************************************)
MarkerCategories == <<R1, K1, LDK1, LDK2, LDK3, LDK4>>

MarkerForms ==
    <<{R1, <<"1", "R">>}, {K1, <<"1", "K">>}, {LDK1, <<"1", "L", "D", "K">>},
      {LDK2, <<"2", "L", "D", "K">>}, {LDK3, <<"3", "L", "D", "K">>},
      {LDK4, <<"4", "L", "D", "K">>}>>

MarkersIn(label) ==
    {i \in 1..Len(MarkerForms) : \E m \in MarkerForms[i] : Contains(label, m)}

C17_TwoPhasePolicy ==
    (pc = "return" /\ floor_plan.kind = "str")
        => LET label == strip(floor_plan.s)
               hits == MarkersIn(label)
               earliest == CHOOSE i \in hits : \A j \in hits : i <= j
           IN  IF label \in DOMAIN room_type_mapping
               THEN room_out = Returned(room_type_mapping[label])
               ELSE IF hits = {} THEN room_out = Returned(Sonota)
               ELSE room_out = Returned(MarkerCategories[earliest])

\* a label with the markers 2LDK and 1K that is no key of the table: 1K comes first
C17_Witness ==
    /\ pc = "return"
    /\ floor_plan = Str(<<"2", "L", "D", "K", "1", "K">>)
    /\ MarkersIn(floor_plan.s) = {2, 4}
    /\ room_out = Returned(K1)

(***************************************************************************)
(* C18: the building age of a normalized record is counted from the year   *)
(* parsed from the record's Period whenever the parse gives a year,        *)
(* whatever that year is; the fallback year is used only when the parse    *)
(* gives none.                                                             *)
(***************************************************************************)
C18_AgeFromParsedYear ==
    pc \in {"first", "other", "second"} =>
        LET parsed == extract_year_from_period(Get(api_record, "Period"))
            from_year == IF parsed.some THEN parsed.v ELSE FallbackYear
        IN  first_out.v.chikunensu
                = extract_building_age(Get(api_record, "BuildingYear"), from_year)

(***************************************************************************)
(* C19, as claimed: for every building-year label that contains a 4-digit  *)
(* year followed by the year marker, whatever else it contains, and every  *)
(* transaction year, extract_building_age returns                          *)
(* max(0, transaction year - that year).                                   *)
(***************************************************************************)
ClampedAge(ty, built) == IF ty - built > 0 THEN ty - built ELSE 0

C20_PlaceNamesTrimmed ==
    pc \in {"first", "other", "second"} =>
        /\ api_record.Prefecture.kind = "str"
              => first_out.v.todofukenmei = Str(strip(api_record.Prefecture.s))
        /\ api_record.Municipality.kind = "str"
              => first_out.v.shikuchosonmei = Str(strip(api_record.Municipality.s))
        /\ api_record.DistrictName.kind = "str"
              => first_out.v.chikumei = Str(strip(api_record.DistrictName.s))
        /\ (api_record.Municipality.kind = "str"
                /\ strip(api_record.Municipality.s) = <<"A">>)
              => Selected(first_out.v, <<"A">>, ALL)

(***************************************************************************)
(* C20, amended: prefecture, municipality and district of a normalized     *)
(* record are the raw values unchanged, whitespace included (the empty     *)
(* string for a missing key), so a record is selected for an area only     *)
(* when its raw municipality equals the area's name character by           *)
(* character.                                                              *)
(***************************************************************************)
RawOrEmpty(x) == IF x.kind = "missing" THEN Str(<<>>) ELSE x

C20_PlaceNamesPassThrough ==
    pc \in {"first", "other", "second"} =>
        /\ first_out.v.todofukenmei = RawOrEmpty(api_record.Prefecture)
        /\ first_out.v.shikuchosonmei = RawOrEmpty(api_record.Municipality)
        /\ first_out.v.chikumei = RawOrEmpty(api_record.DistrictName)
        /\ Selected(first_out.v, <<"A">>, ALL) <=> api_record.Municipality = Str(<<"A">>)

\* a municipality with a leading space stays as it is and is not in area A
C20_Witness ==
    /\ pc = "first"
    /\ api_record.Municipality = Str(<<" ", "A">>)
    /\ first_out.v.shikuchosonmei = Str(<<" ", "A">>)
    /\ ~Selected(first_out.v, <<"A">>, ALL)

(***************************************************************************)
(* C21: after the chart step, the charts-generated counter that the        *)
(* completion report holds equals the number of chart image files written: *)
(* a combination whose selection is empty adds nothing to it.              *)
(***************************************************************************)
C21_CounterEqualsFilesWritten ==
    pc = "charts_returned" =>
        /\ ReportOf(progress).charts_generated = Cardinality(files)
        /\ charts_generated = Cardinality(files)

====
